---------------------------- MODULE Spec2Model ----------------------------
(***************************************************************************)
(* A model of the music server of src/src/server.cpp: the track catalog    *)
(* and its mutex, the catalog loader, the request parser and router, the   *)
(* four route handlers and the accept loop.                                *)
(*                                                                         *)
(* Text is a sequence of one-character strings, so that find, substr and   *)
(* urlDecode work on it as the code does.  A file is a sequence of bytes;  *)
(* a byte is a record: a raw byte carries its numeric value, and a JSON    *)
(* sidecar is written with one symbolic byte per brace and per member.     *)
(***************************************************************************)
EXTENDS Integers, Sequences, FiniteSets, TLC

VARIABLES
    alive,          \* FALSE once std::terminate has ended the process
    pc,             \* position of every thread: 0 is main, the others are connection threads
    track_catalog,  \* std::unordered_map<std::string, TrackInfo>
    catalog_mutex,  \* the set of threads that hold catalog_mutex
    dirExists,      \* fs::exists(MUSIC_DIR)
    dirWritable,    \* whether a new file can be created in MUSIC_DIR
    files,          \* the files of MUSIC_DIR, by name
    scanTodo,       \* entries the running directory_iterator has yet to yield
    request,        \* per connection: the request recv() returned
    pending,        \* per connection: the response its handler has prepared
    stream,         \* per connection: the std::ifstream its handler reads
    resp,           \* per connection: the headers and body chunks sent so far
    log,            \* per connection: the events so far, in order
    stalled,        \* connections whose client has stopped reading
    lastInstalled,  \* history: the catalog as the last finished load left it
    lastLoad        \* history: what the last load found in the directory

vars == <<alive, pc, track_catalog, catalog_mutex, dirExists, dirWritable, files,
          scanTodo, request, pending, stream, resp, log, stalled,
          lastInstalled, lastLoad>>

---------------------------------------------------------------------------
(* Bounds of the model *)

\* connection threads that can be alive at the same time in Spec
MaxConns == 2

\* program constants
BUFFER_SIZE == 8192

DESCRIPTION_EXT == ".json"

MP3_EXT == ".mp3"

Unknown == <<"U","n","k","n","o","w","n">>

---------------------------------------------------------------------------
(* Bytes and files *)

Raw(n) == [k |-> "raw", t |-> "num", s |-> <<>>, n |-> n]

LBrace == [k |-> "{", t |-> "", s |-> <<>>, n |-> 0]

RBrace == [k |-> "}", t |-> "", s |-> <<>>, n |-> 0]

\* "key": "v"
MemberStr(key, v) == [k |-> key, t |-> "str", s |-> v, n |-> 0]

\* "key": v
MemberNum(key, v) == [k |-> key, t |-> "num", s |-> <<>>, n |-> v]

\* the UTF-8 byte-order mark EF BB BF
BOM == <<Raw(239), Raw(187), Raw(191)>>

NoFile == [exists |-> FALSE, openable |-> FALSE, data |-> <<>>]

File(data) == [exists |-> TRUE, openable |-> TRUE, data |-> data]

Mp3Path(id) == [stem |-> id, ext |-> MP3_EXT]

\* MUSIC_DIR + id + DESCRIPTION_EXT
DescriptionPath(id) == [stem |-> id, ext |-> DESCRIPTION_EXT]

ExistingNames == {f \in DOMAIN files : files[f].exists}

Max(a, b) == IF a >= b THEN a ELSE b

Min(a, b) == IF a <= b THEN a ELSE b

---------------------------------------------------------------------------
(* nlohmann::json on a sidecar *)

IsMember(b) == b.k \notin {"raw", "{", "}"}

\* json::parse succeeds: an object of members
JsonParses(toks) ==
    /\ Len(toks) >= 2
    /\ toks[1] = LBrace
    /\ toks[Len(toks)] = RBrace
    /\ \A i \in 2..(Len(toks) - 1) : IsMember(toks[i])

JsonMembers(toks) == SubSeq(toks, 2, Len(toks) - 1)

JsonHas(m, key) == \E i \in 1..Len(m) : m[i].k = key

\* a repeated key keeps its last value
JsonGet(m, key) ==
    m[CHOOSE i \in 1..Len(m) :
        /\ m[i].k = key
        /\ \A j \in (i + 1)..Len(m) : m[j].k # key]

\* basic_json::value(key, default) throws type_error when the member is there
\* with a type that does not convert to the default's type
ValueThrows(m, key, type) == JsonHas(m, key) /\ JsonGet(m, key).t # type

\* a byte that is no UTF-8 on its own: E9, the e acute of Latin-1
InvalidByte == "0xE9"

\* basic_json::dump throws type_error 316 on a string that is not UTF-8
DumpThrows(str) == \E i \in 1..Len(str) : str[i] = InvalidByte

\* desc_data.dump(4) of the default description: std::map orders the keys
DumpDefault(id) ==
    <<LBrace, MemberStr("album", Unknown), MemberStr("artist", Unknown),
      MemberNum("duration", 0), MemberStr("title", id), RBrace>>

---------------------------------------------------------------------------
(* loadTrackCatalog *)

\* the defaults of lines 100-103 with the title left at "Unknown"
DefaultTrack_TitleUnknown(id, entry) ==
    [id |-> id, title |-> Unknown, artist |-> Unknown, album |-> Unknown,
     duration |-> 0, filepath |-> entry, description_path |-> DescriptionPath(id)]

\* lines 90-103
DefaultTrack(id, entry) ==
    [id |-> id, title |-> id, artist |-> Unknown, album |-> Unknown,
     duration |-> 0, filepath |-> entry, description_path |-> DescriptionPath(id)]

\* lines 119-122: four assignments in order; the first value() that throws
\* leaves the later fields as they were
Overlay(track, m) ==
    IF ValueThrows(m, "title", "str") THEN track
    ELSE LET t1 == IF JsonHas(m, "title")
                   THEN [track EXCEPT !.title = JsonGet(m, "title").s] ELSE track
         IN IF ValueThrows(m, "artist", "str") THEN t1
    ELSE LET t2 == IF JsonHas(m, "artist")
                   THEN [t1 EXCEPT !.artist = JsonGet(m, "artist").s] ELSE t1
         IN IF ValueThrows(m, "album", "str") THEN t2
    ELSE LET t3 == IF JsonHas(m, "album")
                   THEN [t2 EXCEPT !.album = JsonGet(m, "album").s] ELSE t2
         IN IF ValueThrows(m, "duration", "num") THEN t3
    ELSE IF JsonHas(m, "duration")
         THEN [t3 EXCEPT !.duration = JsonGet(m, "duration").n] ELSE t3

\* what json::parse reads after lines 111-116: read(bom, 3) on a file shorter
\* than 3 bytes sets failbit, whichever way the comparison of the partly
\* unread bom[] goes, and every later read of the stream fails
AfterBom(data) ==
    IF Len(data) < 3 THEN <<>>
    ELSE IF SubSeq(data, 1, 3) = BOM THEN SubSeq(data, 4, Len(data)) ELSE data

\* lines 105-129: the sidecar exists
ReadDescription(track, file) ==
    IF ~file.openable THEN track
    ELSE IF ~JsonParses(AfterBom(file.data)) THEN track
    ELSE Overlay(track, JsonMembers(AfterBom(file.data)))

CatalogPut(cat, id, track) ==
    [x \in (DOMAIN cat) \cup {id} |-> IF x = id THEN track ELSE cat[x]]

EmptyCatalog == [x \in {} |-> 0]

Conns == DOMAIN pc \ {0}

Scanning == \E t \in DOMAIN pc : pc[t] = "scanning"

NoLoad == [state |-> "none", entries |-> {}, dirMissing |-> FALSE]

NoRequest == [line |-> <<>>, range |-> [present |-> FALSE, text |-> <<>>]]

NoPending == [status |-> 0, ctype |-> "", clen |-> 0, text |-> "", list |-> {},
              file |-> FALSE]

NoStream == [data |-> <<>>, pos |-> 0, good |-> FALSE]

NoResp == [headers |-> <<>>, body |-> <<>>]

ReloadedMsg == "{\"status\": \"Catalog reloaded\"}"

\* std::string::length of the literal bodies
StrLen(s) ==
    CASE s = "Not Found" -> 9
      [] s = "Track not found" -> 15
      [] s = "MP3 file not found" -> 18
      [] s = "Failed to open MP3 file" -> 23
      [] s = "{\"error\": \"Track not found\"}" -> 28
      [] s = "{\"error\": \"Description file not found\"}" -> 39
      [] s = "{\"error\": \"Failed to open description file\"}" -> 44
      [] s = ReloadedMsg -> 30
      [] OTHER -> 0

TextResponse(status, ctype, text) ==
    [status |-> status, ctype |-> ctype, clen |-> StrLen(text), text |-> text,
     list |-> {}, file |-> FALSE]

\* where a thread goes when loadTrackCatalog returns: main enters the accept
\* loop, a /reload handler prepares its response (lines 386-388)
AfterLoad(t) ==
    /\ pc' = [pc EXCEPT ![t] = IF t = 0 THEN "accept" ELSE "send_header"]
    /\ pending' = IF t = 0 THEN pending
                  ELSE [pending EXCEPT ![t] =
                            TextResponse(200, "application/json", ReloadedMsg)]

\* loadTrackCatalog without the clear() of line 77
LoadBegin_NoClear(t) ==
    /\ alive
    /\ pc[t] \in {"load", "reload"}
    /\ catalog_mutex = {}
    /\ track_catalog' = track_catalog
    /\ IF ~dirExists
       THEN /\ dirExists' = TRUE
            /\ catalog_mutex' = {}
            /\ lastInstalled' = EmptyCatalog
            /\ lastLoad' = [state |-> "done", entries |-> {}, dirMissing |-> TRUE]
            /\ AfterLoad(t)
            /\ UNCHANGED scanTodo
       ELSE /\ catalog_mutex' = {t}
            /\ scanTodo' = ExistingNames
            /\ lastLoad' = [state |-> IF lastLoad.state = "done"
                                       THEN "rescanning" ELSE "scanning",
                            entries |-> ExistingNames, dirMissing |-> FALSE]
            /\ pc' = [pc EXCEPT ![t] = "scanning"]
            /\ UNCHANGED <<dirExists, lastInstalled, pending>>
    /\ UNCHANGED <<alive, dirWritable, files, request, stream, resp, log, stalled>>

\* lines 76-84 and the construction of the directory_iterator: lock, clear,
\* and either create the missing directory and return, or start the scan
LoadBegin(t) ==
    /\ alive
    /\ pc[t] \in {"load", "reload"}
    /\ catalog_mutex = {}
    /\ track_catalog' = EmptyCatalog
    /\ IF ~dirExists
       THEN /\ dirExists' = TRUE
            /\ catalog_mutex' = {}
            /\ lastInstalled' = EmptyCatalog
            /\ lastLoad' = [state |-> "done", entries |-> {}, dirMissing |-> TRUE]
            /\ AfterLoad(t)
            /\ UNCHANGED scanTodo
       ELSE /\ catalog_mutex' = {t}
            /\ scanTodo' = ExistingNames
            /\ lastLoad' = [state |-> IF lastLoad.state = "done"
                                       THEN "rescanning" ELSE "scanning",
                            entries |-> ExistingNames, dirMissing |-> FALSE]
            /\ pc' = [pc EXCEPT ![t] = "scanning"]
            /\ UNCHANGED <<dirExists, lastInstalled, pending>>
    /\ UNCHANGED <<alive, dirWritable, files, request, stream, resp, log, stalled>>

\* lines 86-156: one iteration of the loop over the directory.  Writing the
\* default sidecar of an id that is no valid UTF-8, dump(4) throws type_error
\* once the file is open and the mark is in it; the exception leaves the loop
\* for the catch of line 160, the entry is not inserted and the rest of the
\* directory is not read
LoadEntry(t) ==
    /\ alive
    /\ pc[t] = "scanning"
    /\ \E entry \in scanTodo :
        IF entry.ext # MP3_EXT
        THEN /\ scanTodo' = scanTodo \ {entry}
             /\ UNCHANGED <<track_catalog, files>>
        ELSE LET id == entry.stem
                 track == DefaultTrack(id, entry)
                 dp == track.description_path
             IN IF files[dp].exists
                THEN /\ scanTodo' = scanTodo \ {entry}
                     /\ track_catalog' =
                           CatalogPut(track_catalog, id, ReadDescription(track, files[dp]))
                     /\ UNCHANGED files
                ELSE IF dirWritable /\ DumpThrows(id)
                THEN /\ scanTodo' = {}
                     /\ files' = [files EXCEPT ![dp] = File(BOM)]
                     /\ UNCHANGED track_catalog
                ELSE /\ scanTodo' = scanTodo \ {entry}
                     /\ track_catalog' = CatalogPut(track_catalog, id, track)
                     /\ files' = IF dirWritable
                                 THEN [files EXCEPT ![dp] = File(BOM \o DumpDefault(id))]
                                 ELSE files
    /\ UNCHANGED <<alive, pc, catalog_mutex, dirExists, dirWritable, request, pending,
                   stream, resp, log, stalled, lastInstalled, lastLoad>>

\* loadTrackCatalog returning to its caller with the mutex still locked
LoadEnd_KeepLock(t) ==
    /\ alive
    /\ pc[t] = "scanning"
    /\ scanTodo = {}
    /\ catalog_mutex' = catalog_mutex
    /\ lastInstalled' = track_catalog
    /\ lastLoad' = [lastLoad EXCEPT !.state = "done"]
    /\ AfterLoad(t)
    /\ UNCHANGED <<alive, track_catalog, dirExists, dirWritable, files, scanTodo,
                   request, stream, resp, log, stalled>>

\* lines 158-163: the loop is over, the lock_guard releases the mutex
LoadEnd(t) ==
    /\ alive
    /\ pc[t] = "scanning"
    /\ scanTodo = {}
    /\ catalog_mutex' = catalog_mutex \ {t}
    /\ lastInstalled' = track_catalog
    /\ lastLoad' = [lastLoad EXCEPT !.state = "done"]
    /\ AfterLoad(t)
    /\ UNCHANGED <<alive, track_catalog, dirExists, dirWritable, files, scanTodo,
                   request, stream, resp, log, stalled>>

---------------------------------------------------------------------------
(* The request parser: handleHttpRequest, lines 348-367 *)

\* request_stream >> method >> path >> version
Method(req) == IF Len(req.line) >= 1 THEN req.line[1] ELSE <<>>

Path(req) == IF Len(req.line) >= 2 THEN req.line[2] ELSE <<>>

IsPrefix(p, s) == Len(p) <= Len(s) /\ SubSeq(s, 1, Len(p)) = p

\* request.find('-', start_pos), as an index into the text after
\* "Range: bytes=" (0: npos)
FindDash(text) ==
    IF \E i \in 1..Len(text) : text[i] = "-"
    THEN CHOOSE i \in 1..Len(text) :
            text[i] = "-" /\ \A j \in 1..(i - 1) : text[j] # "-"
    ELSE 0

IsSpace(c) == c \in {" ", "\t", "\n", "\r", "\f"}

IsDigit(c) == c \in {"0", "1", "2", "3", "4", "5", "6", "7", "8", "9"}

DigitVal(c) ==
    CASE c = "0" -> 0 [] c = "1" -> 1 [] c = "2" -> 2 [] c = "3" -> 3
      [] c = "4" -> 4 [] c = "5" -> 5 [] c = "6" -> 6 [] c = "7" -> 7
      [] c = "8" -> 8 [] c = "9" -> 9

\* the index of the first element of s, from index i on, that is no white
\* space (digit, zero); Len(s) + 1 when there is none
RECURSIVE SkipSpaces(_, _)
SkipSpaces(s, i) ==
    IF i <= Len(s) /\ IsSpace(s[i]) THEN SkipSpaces(s, i + 1) ELSE i

RECURSIVE SkipDigits(_, _)
SkipDigits(s, i) ==
    IF i <= Len(s) /\ IsDigit(s[i]) THEN SkipDigits(s, i + 1) ELSE i

RECURSIVE SkipZeros(_, _)
SkipZeros(s, i) ==
    IF i <= Len(s) /\ s[i] = "0" THEN SkipZeros(s, i + 1) ELSE i

RECURSIVE DecValue(_)
DecValue(d) ==
    IF d = <<>> THEN 0
    ELSE 10 * DecValue(SubSeq(d, 1, Len(d) - 1)) + DigitVal(d[Len(d)])

\* std::stoll(s): white space, an optional sign, decimal digits.  No digit:
\* std::invalid_argument.  A value outside int64_t: std::out_of_range; every
\* number of more than 19 significant digits is outside, and the requests of
\* this model hold either such a number or one of at most 9 digits.
Stoll(s) ==
    LET b == SkipSpaces(s, 1)
        signed == b <= Len(s) /\ s[b] \in {"+", "-"}
        d == IF signed THEN b + 1 ELSE b
        e == SkipDigits(s, d)
        digits == SubSeq(s, d, e - 1)
        significant == SubSeq(s, SkipZeros(s, d), e - 1)
    IN IF digits = <<>> THEN [throws |-> "invalid_argument", val |-> 0]
       ELSE IF Len(significant) > 19 THEN [throws |-> "out_of_range", val |-> 0]
       ELSE [throws |-> "",
             val |-> IF signed /\ s[b] = "-" THEN 0 - DecValue(significant)
                     ELSE DecValue(significant)]

\* lines 357-367: range_start, or the exception std::stoll throws
ParseRange(req) ==
    IF ~req.range.present THEN [throws |-> "", val |-> 0]
    ELSE IF FindDash(req.range.text) = 0 THEN [throws |-> "", val |-> 0]
    ELSE Stoll(SubSeq(req.range.text, 1, FindDash(req.range.text) - 1))

---------------------------------------------------------------------------
(* urlDecode and toUtf8, lines 21-23 and 48-72 *)

HexVal(c) ==
    CASE IsDigit(c) -> DigitVal(c)
      [] c \in {"a", "A"} -> 10 [] c \in {"b", "B"} -> 11 [] c \in {"c", "C"} -> 12
      [] c \in {"d", "D"} -> 13 [] c \in {"e", "E"} -> 14 [] c \in {"f", "F"} -> 15
      [] OTHER -> 0 - 1

IsHex(c) == HexVal(c) >= 0

\* std::strtol(hex, nullptr, 16) of a two-character string: white space, an
\* optional sign, then the longest run of hexadecimal digits (0 when none)
Strtol16(h1, h2) ==
    IF IsHex(h1) THEN (IF IsHex(h2) THEN 16 * HexVal(h1) + HexVal(h2) ELSE HexVal(h1))
    ELSE IF IsSpace(h1) \/ h1 = "+" THEN (IF IsHex(h2) THEN HexVal(h2) ELSE 0)
    ELSE IF h1 = "-" THEN (IF IsHex(h2) THEN 0 - HexVal(h2) ELSE 0)
    ELSE 0

\* static_cast<char>: the character with that byte value; "NUL" is the zero
\* byte, "?" + "?" any byte outside the alphabet of the model
ToChar(n) ==
    CASE n % 256 = 0 -> "NUL"
      [] n % 256 = 32 -> " "
      [] n % 256 = 37 -> "%"
      [] n % 256 = 43 -> "+"
      [] n % 256 = 47 -> "/"
      [] n % 256 = 97 -> "a"
      [] n % 256 = 98 -> "b"
      [] n % 256 = 120 -> "x"
      [] OTHER -> "??"

RECURSIVE DecodeFrom(_, _)
DecodeFrom(value, i) ==
    IF i > Len(value) THEN <<>>
    ELSE IF value[i] = "%"
         THEN IF i + 2 <= Len(value)
              THEN <<ToChar(Strtol16(value[i + 1], value[i + 2]))>> \o DecodeFrom(value, i + 3)
              ELSE <<"%">> \o DecodeFrom(value, i + 1)
    ELSE IF value[i] = "+" THEN <<" ">> \o DecodeFrom(value, i + 1)
    ELSE <<value[i]>> \o DecodeFrom(value, i + 1)

\* std::u8string(str.c_str()): the string up to its first zero byte
toUtf8(str) ==
    IF \E i \in 1..Len(str) : str[i] = "NUL"
    THEN SubSeq(str, 1, (CHOOSE i \in 1..Len(str) :
                            str[i] = "NUL" /\ \A j \in 1..(i - 1) : str[j] # "NUL") - 1)
    ELSE str

urlDecode(value) == toUtf8(DecodeFrom(value, 1))

---------------------------------------------------------------------------
(* The router: handleHttpRequest, lines 369-394 *)

CatalogPath == <<"/","c","a","t","a","l","o","g">>

ReloadPath == <<"/","r","e","l","o","a","d">>

DescriptionPrefix == <<"/","d","e","s","c","r","i","p","t","i","o","n","/">>

StreamPrefix == <<"/","s","t","r","e","a","m","/">>

\* the branch of the if / else-if chain the path takes, by the function it calls
Route(path) ==
    IF path = CatalogPath THEN "sendCatalog"
    ELSE IF IsPrefix(DescriptionPrefix, path) THEN "sendTrackDescription"
    ELSE IF IsPrefix(StreamPrefix, path) THEN "sendMp3File"
    ELSE IF path = ReloadPath THEN "loadTrackCatalog"
    ELSE "NotFound"

\* path.substr(13) and path.substr(8), decoded
TrackId(path) ==
    IF IsPrefix(DescriptionPrefix, path) THEN urlDecode(SubSeq(path, 14, Len(path)))
    ELSE urlDecode(SubSeq(path, 9, Len(path)))

RoutePc(route) ==
    CASE route = "sendCatalog" -> "catalog"
      [] route = "sendTrackDescription" -> "description"
      [] route = "sendMp3File" -> "stream"
      [] route = "loadTrackCatalog" -> "reload"
      [] OTHER -> "send_header"

---------------------------------------------------------------------------
(* sendHttpHeader, lines 166-190 *)

StatusText(status_code) ==
    CASE status_code = 200 -> "OK"
      [] status_code = 404 -> "Not Found"
      [] status_code = 500 -> "Internal Server Error"
      [] OTHER -> "Unknown"

\* sendHttpHeader without lines 177-182
FinalContentType_NoCharset(content_type) == content_type

\* lines 177-182, for the three content types the handlers pass
FinalContentType(content_type) ==
    CASE content_type = "text/plain" -> "text/plain; charset=utf-8"
      [] content_type = "application/json" -> "application/json; charset=utf-8"
      [] OTHER -> content_type

HttpHeader(status_code, content_type, content_length) ==
    [status |-> status_code, status_text |-> StatusText(status_code),
     content_type |-> FinalContentType(content_type),
     content_length |-> content_length,
     connection |-> "close", allow_origin |-> "*"]

---------------------------------------------------------------------------
(* The accept loop and handleHttpRequest *)

\* an accept loop that runs beside the initial load instead of after it
Accept_BeforeLoad(c) ==
    /\ alive
    /\ pc[c] \in {"idle", "closed"}
    /\ pc' = [pc EXCEPT ![c] = "accepted"]
    /\ request' = [request EXCEPT ![c] = NoRequest]
    /\ pending' = [pending EXCEPT ![c] = NoPending]
    /\ stream' = [stream EXCEPT ![c] = NoStream]
    /\ resp' = [resp EXCEPT ![c] = NoResp]
    /\ log' = [log EXCEPT ![c] = <<>>]
    /\ stalled' = stalled \ {c}
    /\ UNCHANGED <<alive, track_catalog, catalog_mutex, dirExists, dirWritable, files,
                   scanTodo, lastInstalled, lastLoad>>

\* main, lines 469-486: a new thread for the accepted connection; a slot
\* whose thread has finished is free for the next connection
Accept(c) ==
    /\ alive
    /\ pc[0] = "accept"
    /\ pc[c] \in {"idle", "closed"}
    /\ pc' = [pc EXCEPT ![c] = "accepted"]
    /\ request' = [request EXCEPT ![c] = NoRequest]
    /\ pending' = [pending EXCEPT ![c] = NoPending]
    /\ stream' = [stream EXCEPT ![c] = NoStream]
    /\ resp' = [resp EXCEPT ![c] = NoResp]
    /\ log' = [log EXCEPT ![c] = <<>>]
    /\ stalled' = stalled \ {c}
    /\ UNCHANGED <<alive, track_catalog, catalog_mutex, dirExists, dirWritable, files,
                   scanTodo, lastInstalled, lastLoad>>

\* lines 342-346: recv returns no byte
RecvNothing(c) ==
    /\ alive
    /\ pc[c] = "accepted"
    /\ pc' = [pc EXCEPT ![c] = "closed"]
    /\ log' = [log EXCEPT ![c] = <<"close">>]
    /\ UNCHANGED <<alive, track_catalog, catalog_mutex, dirExists, dirWritable, files,
                   scanTodo, request, pending, stream, resp, stalled, lastInstalled,
                   lastLoad>>

\* lines 342-394 up to the call of the handler: recv returns req, the request
\* line and the Range header are parsed, the path is routed.  An exception of
\* std::stoll is caught nowhere in the thread: std::terminate.
Recv(c, req) ==
    /\ alive
    /\ pc[c] = "accepted"
    /\ request' = [request EXCEPT ![c] = req]
    /\ IF ParseRange(req).throws # ""
       THEN /\ alive' = FALSE
            /\ log' = [log EXCEPT ![c] = <<"recv">>]
            /\ UNCHANGED <<pc, pending>>
       ELSE /\ log' = [log EXCEPT ![c] = <<"recv", Route(Path(req))>>]
            /\ pc' = [pc EXCEPT ![c] = RoutePc(Route(Path(req)))]
            /\ pending' = IF Route(Path(req)) = "NotFound"
                          THEN [pending EXCEPT ![c] =
                                    TextResponse(404, "text/plain", "Not Found")]
                          ELSE pending
            /\ UNCHANGED alive
    /\ UNCHANGED <<track_catalog, catalog_mutex, dirExists, dirWritable, files,
                   scanTodo, stream, resp, stalled, lastInstalled, lastLoad>>

---------------------------------------------------------------------------
(* sendCatalog, lines 193-214 *)

TrackJson(track) ==
    [id |-> track.id, title |-> track.title, artist |-> track.artist,
     album |-> track.album, duration |-> track.duration]

\* the JSON array built under the lock; its length is counted in elements
CatalogJson(cat) == {TrackJson(cat[x]) : x \in DOMAIN cat}

\* sendCatalog copying the map without taking catalog_mutex
SendCatalog_NoLock(c) ==
    /\ alive
    /\ pc[c] = "catalog"
    /\ pending' = [pending EXCEPT ![c] =
                      [status |-> 200, ctype |-> "application/json",
                       clen |-> Cardinality(CatalogJson(track_catalog)),
                       text |-> "", list |-> CatalogJson(track_catalog), file |-> FALSE]]
    /\ pc' = [pc EXCEPT ![c] = "send_header"]
    /\ UNCHANGED <<alive, track_catalog, catalog_mutex, dirExists, dirWritable, files,
                   scanTodo, request, stream, resp, log, stalled, lastInstalled,
                   lastLoad>>

\* sendCatalog with the lock_guard living to the end of the function
SendCatalog_LockThroughSend(c) ==
    /\ alive
    /\ pc[c] = "catalog"
    /\ catalog_mutex = {}
    /\ catalog_mutex' = {c}
    /\ pending' = [pending EXCEPT ![c] =
                      [status |-> 200, ctype |-> "application/json",
                       clen |-> Cardinality(CatalogJson(track_catalog)),
                       text |-> "", list |-> CatalogJson(track_catalog), file |-> FALSE]]
    /\ pc' = [pc EXCEPT ![c] = "send_header"]
    /\ UNCHANGED <<alive, track_catalog, dirExists, dirWritable, files,
                   scanTodo, request, stream, resp, log, stalled, lastInstalled,
                   lastLoad>>

\* lines 194-210: lock, copy every record, unlock, dump.  dump() of an id
\* or a title that is no valid UTF-8 throws in a thread that catches nothing:
\* std::terminate
SendCatalog(c) ==
    /\ alive
    /\ pc[c] = "catalog"
    /\ catalog_mutex = {}
    /\ IF \E x \in DOMAIN track_catalog :
              DumpThrows(track_catalog[x].id) \/ DumpThrows(track_catalog[x].title)
       THEN /\ alive' = FALSE
            /\ UNCHANGED <<pc, pending>>
       ELSE /\ pending' = [pending EXCEPT ![c] =
                      [status |-> 200, ctype |-> "application/json",
                       clen |-> Cardinality(CatalogJson(track_catalog)),
                       text |-> "", list |-> CatalogJson(track_catalog), file |-> FALSE]]
            /\ pc' = [pc EXCEPT ![c] = "send_header"]
            /\ UNCHANGED alive
    /\ UNCHANGED <<track_catalog, catalog_mutex, dirExists, dirWritable, files,
                   scanTodo, request, stream, resp, log, stalled, lastInstalled,
                   lastLoad>>

---------------------------------------------------------------------------
(* sendTrackDescription, lines 217-278 *)

FileResponse(status, ctype, clen) ==
    [status |-> status, ctype |-> ctype, clen |-> clen, text |-> "", list |-> {},
     file |-> TRUE]

\* lines 254-262 on a file of at least 3 bytes
HasBom(data) == Len(data) >= 3 /\ SubSeq(data, 1, 3) = BOM

\* lines 220-246: the first check that fails decides the answer
DescriptionCheck(track_id) ==
    IF track_id \notin DOMAIN track_catalog THEN "track_not_found"
    ELSE IF ~files[track_catalog[track_id].description_path].exists THEN "file_not_found"
    ELSE IF ~files[track_catalog[track_id].description_path].openable THEN "open_failed"
    ELSE "ok"

DescriptionError(check) ==
    CASE check = "track_not_found" ->
            TextResponse(404, "application/json", "{\"error\": \"Track not found\"}")
      [] check = "file_not_found" ->
            TextResponse(404, "application/json",
                         "{\"error\": \"Description file not found\"}")
      [] check = "open_failed" ->
            TextResponse(500, "application/json",
                         "{\"error\": \"Failed to open description file\"}")

\* lines 218-265: lock, look the id up, check the sidecar, open it, measure it.
\* On a sidecar shorter than 3 bytes read(bom, 3) fails and leaves the end of
\* bom[] unwritten: the comparison of line 256 reads indeterminate bytes and
\* may go either way when the bytes that were read agree with the mark; the
\* stream stays failed, seekg included.  file_size - 3 is kept as the
\* (negative) integer that size_t wraps.
LookupDescription(c) ==
    /\ alive
    /\ pc[c] = "description"
    /\ catalog_mutex = {}
    /\ catalog_mutex' = {c}
    /\ pc' = [pc EXCEPT ![c] = "send_header"]
    /\ LET track_id == TrackId(Path(request[c]))
           check == DescriptionCheck(track_id)
       IN IF check # "ok"
          THEN /\ pending' = [pending EXCEPT ![c] = DescriptionError(check)]
               /\ UNCHANGED stream
          ELSE LET f == files[track_catalog[track_id].description_path]
               IN IF Len(f.data) >= 3
                  THEN /\ pending' = [pending EXCEPT ![c] = FileResponse(200,
                               "application/json",
                               IF HasBom(f.data) THEN Len(f.data) - 3 ELSE Len(f.data))]
                       /\ stream' = [stream EXCEPT ![c] =
                               [data |-> f.data,
                                pos |-> IF HasBom(f.data) THEN 3 ELSE 0,
                                good |-> TRUE]]
                  ELSE \E bomSeen \in (IF f.data = SubSeq(BOM, 1, Len(f.data))
                                       THEN BOOLEAN ELSE {FALSE}) :
                       /\ pending' = [pending EXCEPT ![c] = FileResponse(200,
                               "application/json",
                               IF bomSeen THEN Len(f.data) - 3 ELSE Len(f.data))]
                       /\ stream' = [stream EXCEPT ![c] =
                               [data |-> f.data, pos |-> Len(f.data), good |-> FALSE]]
    /\ UNCHANGED <<alive, track_catalog, dirExists, dirWritable, files, scanTodo,
                   request, resp, log, stalled, lastInstalled, lastLoad>>

---------------------------------------------------------------------------
(* sendMp3File, lines 281-334 *)

\* line 317 without the upper clamp
ClampStart_NoUpper(start_pos, file_size) == Max(0, start_pos)

\* line 317
ClampStart(start_pos, file_size) == Max(0, Min(start_pos, file_size))

\* sendMp3File opening the file before asking whether it exists
Mp3Check_OpenFirst(track_id) ==
    IF track_id \notin DOMAIN track_catalog THEN "track_not_found"
    ELSE IF ~files[track_catalog[track_id].filepath].openable THEN "open_failed"
    ELSE IF ~files[track_catalog[track_id].filepath].exists THEN "file_not_found"
    ELSE "ok"

\* lines 284-310: the first check that fails decides the answer
Mp3Check(track_id) ==
    IF track_id \notin DOMAIN track_catalog THEN "track_not_found"
    ELSE IF ~files[track_catalog[track_id].filepath].exists THEN "file_not_found"
    ELSE IF ~files[track_catalog[track_id].filepath].openable THEN "open_failed"
    ELSE "ok"

Mp3Error(check) ==
    CASE check = "track_not_found" -> TextResponse(404, "text/plain", "Track not found")
      [] check = "file_not_found" -> TextResponse(404, "text/plain", "MP3 file not found")
      [] check = "open_failed" ->
            TextResponse(500, "text/plain", "Failed to open MP3 file")

\* sendMp3File with the lock_guard scoped to the lookup: the mutex is free
\* again when the header and the body are sent
LookupMp3_LockLookupOnly(c) ==
    /\ alive
    /\ pc[c] = "stream"
    /\ catalog_mutex = {}
    /\ catalog_mutex' = {}
    /\ pc' = [pc EXCEPT ![c] = "send_header"]
    /\ LET track_id == TrackId(Path(request[c]))
           start_pos == ParseRange(request[c]).val
           check == Mp3Check(track_id)
       IN IF check # "ok"
          THEN /\ pending' = [pending EXCEPT ![c] = Mp3Error(check)]
               /\ UNCHANGED stream
          ELSE LET f == files[track_catalog[track_id].filepath]
               IN /\ pending' = [pending EXCEPT ![c] = FileResponse(200, "audio/mpeg",
                               Len(f.data) - ClampStart(start_pos, Len(f.data)))]
                  /\ stream' = [stream EXCEPT ![c] =
                               [data |-> f.data,
                                pos |-> ClampStart(start_pos, Len(f.data)),
                                good |-> TRUE]]
    /\ UNCHANGED <<alive, track_catalog, dirExists, dirWritable, files, scanTodo,
                   request, resp, log, stalled, lastInstalled, lastLoad>>

\* lines 282-321: lock, look the id up, check the media file, open it,
\* measure it, clamp the start and seek
LookupMp3(c) ==
    /\ alive
    /\ pc[c] = "stream"
    /\ catalog_mutex = {}
    /\ catalog_mutex' = {c}
    /\ pc' = [pc EXCEPT ![c] = "send_header"]
    /\ LET track_id == TrackId(Path(request[c]))
           start_pos == ParseRange(request[c]).val
           check == Mp3Check(track_id)
       IN IF check # "ok"
          THEN /\ pending' = [pending EXCEPT ![c] = Mp3Error(check)]
               /\ UNCHANGED stream
          ELSE LET f == files[track_catalog[track_id].filepath]
               IN /\ pending' = [pending EXCEPT ![c] = FileResponse(200, "audio/mpeg",
                               Len(f.data) - ClampStart(start_pos, Len(f.data)))]
                  /\ stream' = [stream EXCEPT ![c] =
                               [data |-> f.data,
                                pos |-> ClampStart(start_pos, Len(f.data)),
                                good |-> TRUE]]
    /\ UNCHANGED <<alive, track_catalog, dirExists, dirWritable, files, scanTodo,
                   request, resp, log, stalled, lastInstalled, lastLoad>>

---------------------------------------------------------------------------
(* Sending, returning and closing *)

\* one body chunk handed to send()
Chunk(text, list, data) == [text |-> text, list |-> list, data |-> data]

\* the call of sendHttpHeader that every handler makes before its body
SendHeader(c) ==
    /\ alive
    /\ pc[c] = "send_header"
    /\ c \notin stalled
    /\ resp' = [resp EXCEPT ![c].headers =
                   Append(@, HttpHeader(pending[c].status, pending[c].ctype,
                                        pending[c].clen))]
    /\ log' = [log EXCEPT ![c] = Append(@, "header")]
    /\ pc' = [pc EXCEPT ![c] = "send_body"]
    /\ UNCHANGED <<alive, track_catalog, catalog_mutex, dirExists, dirWritable, files,
                   scanTodo, request, pending, stream, stalled, lastInstalled, lastLoad>>

\* a handler that sends its literal without calling sendHttpHeader first
SendText_NoHeader(c) ==
    /\ alive
    /\ pc[c] \in {"send_header", "send_body"}
    /\ ~pending[c].file
    /\ c \notin stalled
    /\ resp' = [resp EXCEPT ![c].body =
                   Append(@, Chunk(pending[c].text, pending[c].list, <<>>))]
    /\ log' = [log EXCEPT ![c] = Append(@, "body")]
    /\ pc' = [pc EXCEPT ![c] = "finish"]
    /\ UNCHANGED <<alive, track_catalog, catalog_mutex, dirExists, dirWritable, files,
                   scanTodo, request, pending, stream, stalled, lastInstalled, lastLoad>>

\* the send of a literal or of the dumped catalog
SendText(c) ==
    /\ alive
    /\ pc[c] = "send_body"
    /\ ~pending[c].file
    /\ c \notin stalled
    /\ resp' = [resp EXCEPT ![c].body =
                   Append(@, Chunk(pending[c].text, pending[c].list, <<>>))]
    /\ log' = [log EXCEPT ![c] = Append(@, "body")]
    /\ pc' = [pc EXCEPT ![c] = "finish"]
    /\ UNCHANGED <<alive, track_catalog, catalog_mutex, dirExists, dirWritable, files,
                   scanTodo, request, pending, stream, stalled, lastInstalled, lastLoad>>

\* lines 269-275 and 325-331: one round of the loop `while (file)`: read up
\* to BUFFER_SIZE bytes, send what was read; a short read fails the stream
SendFileChunk(c) ==
    /\ alive
    /\ pc[c] = "send_body"
    /\ pending[c].file
    /\ c \notin stalled
    /\ IF ~stream[c].good
       THEN /\ pc' = [pc EXCEPT ![c] = "finish"]
            /\ UNCHANGED <<stream, resp, log>>
       ELSE LET bytes_read == Min(BUFFER_SIZE, Len(stream[c].data) - stream[c].pos)
                buffer == SubSeq(stream[c].data, stream[c].pos + 1,
                                 stream[c].pos + bytes_read)
            IN /\ stream' = [stream EXCEPT ![c].pos = @ + bytes_read,
                                           ![c].good = (bytes_read = BUFFER_SIZE)]
               /\ IF bytes_read > 0
                  THEN /\ resp' = [resp EXCEPT ![c].body =
                                      Append(@, Chunk("", {}, buffer))]
                       /\ log' = [log EXCEPT ![c] = Append(@, "body")]
                  ELSE UNCHANGED <<resp, log>>
               /\ pc' = [pc EXCEPT ![c] =
                            IF bytes_read = BUFFER_SIZE THEN "send_body" ELSE "finish"]
    /\ UNCHANGED <<alive, track_catalog, catalog_mutex, dirExists, dirWritable, files,
                   scanTodo, request, pending, stalled, lastInstalled, lastLoad>>

\* a handler that returns to handleHttpRequest without unlocking
Finish_NoRelease(c) ==
    /\ alive
    /\ pc[c] = "finish"
    /\ catalog_mutex' = catalog_mutex
    /\ log' = [log EXCEPT ![c] = Append(@, "close")]
    /\ pc' = [pc EXCEPT ![c] = "closed"]
    /\ UNCHANGED <<alive, track_catalog, dirExists, dirWritable, files, scanTodo,
                   request, pending, stream, resp, stalled, lastInstalled, lastLoad>>

\* the handler returns (a lock_guard of its own releases the mutex) and
\* handleHttpRequest closes the socket, line 396
Finish(c) ==
    /\ alive
    /\ pc[c] = "finish"
    /\ catalog_mutex' = catalog_mutex \ {c}
    /\ log' = [log EXCEPT ![c] = Append(@, "close")]
    /\ pc' = [pc EXCEPT ![c] = "closed"]
    /\ UNCHANGED <<alive, track_catalog, dirExists, dirWritable, files, scanTodo,
                   request, pending, stream, resp, stalled, lastInstalled, lastLoad>>

---------------------------------------------------------------------------
(* The environment: clients, and whoever edits the media directory.  The   *)
(* directory is edited between loads, not while one is scanning it.        *)

\* the next step of c is a call of send()
SendPending(c) ==
    \/ pc[c] = "send_header"
    \/ pc[c] = "send_body" /\ ~pending[c].file
    \/ pc[c] = "send_body" /\ stream[c].good /\ stream[c].pos < Len(stream[c].data)

\* the client of c stops reading, for good: the send() that c is about to
\* make blocks for ever
ClientStall(c) ==
    /\ alive
    /\ SendPending(c)
    /\ c \notin stalled
    /\ stalled' = stalled \cup {c}
    /\ UNCHANGED <<alive, pc, track_catalog, catalog_mutex, dirExists, dirWritable,
                   files, scanTodo, request, pending, stream, resp, log, lastInstalled,
                   lastLoad>>

EnvFrame ==
    /\ lastLoad' = NoLoad
    /\ UNCHANGED <<alive, pc, track_catalog, catalog_mutex, scanTodo, request, pending,
                   stream, resp, log, stalled, lastInstalled>>

EnvPut(name, data) ==
    /\ alive /\ ~Scanning /\ dirExists
    /\ files[name] # File(data)
    /\ files' = [files EXCEPT ![name] = File(data)]
    /\ UNCHANGED <<dirExists, dirWritable>>
    /\ EnvFrame

EnvRemove(name) ==
    /\ alive /\ ~Scanning
    /\ files[name].exists
    /\ files' = [files EXCEPT ![name] = NoFile]
    /\ UNCHANGED <<dirExists, dirWritable>>
    /\ EnvFrame

\* the file loses, or gets back, its read permission
EnvChmod(name) ==
    /\ alive /\ ~Scanning
    /\ files[name].exists
    /\ files' = [files EXCEPT ![name].openable = ~@]
    /\ UNCHANGED <<dirExists, dirWritable>>
    /\ EnvFrame

\* the directory loses, or gets back, its write permission
EnvChmodDir ==
    /\ alive /\ ~Scanning /\ dirExists
    /\ dirWritable' = ~dirWritable
    /\ UNCHANGED <<dirExists, files>>
    /\ EnvFrame

\* the directory is removed with all it holds
EnvRemoveDir ==
    /\ alive /\ ~Scanning /\ dirExists
    /\ dirExists' = FALSE
    /\ files' = [f \in DOMAIN files |-> NoFile]
    /\ UNCHANGED dirWritable
    /\ EnvFrame

---------------------------------------------------------------------------
(* Inputs *)

IdA == <<"a">>

IdB == <<"b">>

GET == <<"G","E","T">>

POST == <<"P","O","S","T">>

HTTP11 == <<"H","T","T","P","/","1",".","1">>

Req(method, path) ==
    [line |-> <<method, path, HTTP11>>, range |-> [present |-> FALSE, text |-> <<>>]]

\* a request with `Range: bytes=` followed by text
ReqRange(method, path, text) ==
    [line |-> <<method, path, HTTP11>>, range |-> [present |-> TRUE, text |-> text]]

Mp3Data == <<Raw(1), Raw(2), Raw(3)>>

\* the requests of Spec: the four routes, on one track
CoreRequests ==
    { Req(GET, CatalogPath), Req(GET, ReloadPath),
      Req(GET, StreamPrefix \o IdA), Req(GET, DescriptionPrefix \o IdA) }

CoreNames == {Mp3Path(IdA), DescriptionPath(IdA)}

\* the requests of SpecReload: listings and reloads, on two tracks
ReloadRequests == { Req(GET, CatalogPath), Req(GET, ReloadPath) }

ReloadNames == {Mp3Path(IdA), DescriptionPath(IdA), Mp3Path(IdB), DescriptionPath(IdB)}

\* sidecars an editor may give track a in SpecLoad
SidecarFull ==
    <<LBrace, MemberStr("title", <<"A">>), MemberStr("artist", <<"B">>),
      MemberStr("album", <<"C">>), MemberNum("duration", 42), RBrace>>

SidecarPartial == <<LBrace, MemberStr("artist", <<"B">>), RBrace>>

SidecarIllTyped == <<LBrace, MemberNum("title", 7), MemberStr("artist", <<"B">>), RBrace>>

SidecarNoFields == <<LBrace, RBrace>>

SidecarTruncated == <<LBrace, MemberStr("title", <<"A">>)>>

SidecarNegative == <<LBrace, MemberNum("duration", 0 - 5), RBrace>>

SidecarIllTypedArtist ==
    <<LBrace, MemberStr("title", <<"A">>), MemberNum("artist", 7), RBrace>>

LoadSidecars ==
    { SidecarFull, BOM \o SidecarFull, SidecarPartial, SidecarIllTyped,
      SidecarIllTypedArtist,
      SidecarNoFields, SidecarTruncated, SidecarNegative }

WavPath == [stem |-> IdB, ext |-> ".wav"]

\* a file name that is Latin-1, not UTF-8
IdLatin1 == <<InvalidByte>>

LoadNames == ReloadNames \cup {WavPath, Mp3Path(IdLatin1), DescriptionPath(IdLatin1)}

LoadRequests == { Req(GET, ReloadPath) }

\* the requests of SpecHttp
Nines20 == [i \in 1..20 |-> "9"]

\* ids that exercise the decoder: a+b, %2Fx, a%, a%6, %61, a%00b
DecodeIds ==
    { <<"a", "+", "b">>, <<"%", "2", "F", "x">>, <<"a", "%">>, <<"a", "%", "6">>,
      <<"%", "6", "1">>, <<"a", "%", "0", "0", "b">> }

HttpPaths ==
    {StreamPrefix \o id : id \in DecodeIds} \cup
    { CatalogPath, CatalogPath \o <<"/">>, CatalogPath \o <<"?", "x">>,
      ReloadPath, ReloadPath \o <<"/">>,
      DescriptionPrefix \o IdA, DescriptionPrefix \o IdB, DescriptionPrefix,
      StreamPrefix \o IdA, StreamPrefix \o IdB, StreamPrefix \o <<"%", "6", "1">>,
      <<"/">>, <<"/", "s", "t", "r", "e", "a", "m">>, <<>> }

HttpRanges ==
    { <<"0", "-">>, <<"2", "-">>, <<"3", "-">>, <<"9", "-">>, <<"2", "-", "5">>,
      <<" ", "2", "-">>, <<"+", "2", "-">>, <<"2">>,
      <<"-">>, <<"x", "-">>, <<"-", "5", "-">>, Nines20 \o <<"-">> }

HttpRequests ==
    {Req(GET, p) : p \in HttpPaths}
    \cup {Req(POST, p) : p \in {CatalogPath, ReloadPath, StreamPrefix \o IdA}}
    \cup {ReqRange(GET, StreamPrefix \o IdA, r) : r \in HttpRanges}
    \cup {ReqRange(GET, CatalogPath, r) : r \in {<<"2", "-">>, <<"x", "-">>}}
    \cup {[line |-> <<GET>>, range |-> [present |-> FALSE, text |-> <<>>]]}

HttpSidecars == { SidecarPartial, SidecarNoFields, <<>>, SubSeq(BOM, 1, 2), BOM }

---------------------------------------------------------------------------
(* Specifications *)

InitWith(conns, names) ==
    /\ alive = TRUE
    /\ pc = [t \in {0} \cup conns |-> IF t = 0 THEN "load" ELSE "idle"]
    /\ track_catalog = EmptyCatalog
    /\ catalog_mutex = {}
    /\ dirExists \in BOOLEAN
    /\ dirWritable = TRUE
    /\ files = [f \in names |-> NoFile]
    /\ scanTodo = {}
    /\ request = [c \in conns |-> NoRequest]
    /\ pending = [c \in conns |-> NoPending]
    /\ stream = [c \in conns |-> NoStream]
    /\ resp = [c \in conns |-> NoResp]
    /\ log = [c \in conns |-> <<>>]
    /\ stalled = {}
    /\ lastInstalled = EmptyCatalog
    /\ lastLoad = NoLoad

\* Spec: MaxConns concurrent connections on the four routes, one track
Init == InitWith(1..MaxConns, CoreNames)

Next ==
    \/ \E t \in DOMAIN pc : LoadBegin(t)
    \/ \E t \in DOMAIN pc : LoadEntry(t)
    \/ \E t \in DOMAIN pc : LoadEnd(t)
    \/ \E c \in Conns : Accept(c)
    \/ \E c \in Conns : \E req \in CoreRequests : Recv(c, req)
    \/ \E c \in Conns : SendCatalog(c)
    \/ \E c \in Conns : LookupDescription(c)
    \/ \E c \in Conns : LookupMp3(c)
    \/ \E c \in Conns : SendHeader(c)
    \/ \E c \in Conns : SendText(c)
    \/ \E c \in Conns : SendFileChunk(c)
    \/ \E c \in Conns : Finish(c)
    \/ \E c \in Conns : ClientStall(c)
    \/ EnvPut(Mp3Path(IdA), Mp3Data)
    \/ EnvRemove(Mp3Path(IdA))

Spec == Init /\ [][Next]_vars

\* SpecReload: MaxConns concurrent connections that list and reload, two tracks
InitReload == InitWith(1..MaxConns, ReloadNames)

NextReload ==
    \/ \E t \in DOMAIN pc : LoadBegin(t)
    \/ \E t \in DOMAIN pc : LoadEntry(t)
    \/ \E t \in DOMAIN pc : LoadEnd(t)
    \/ \E c \in Conns : Accept(c)
    \/ \E c \in Conns : \E req \in ReloadRequests : Recv(c, req)
    \/ \E c \in Conns : SendCatalog(c)
    \/ \E c \in Conns : SendHeader(c)
    \/ \E c \in Conns : SendText(c)
    \/ \E c \in Conns : Finish(c)
    \/ \E id \in {IdA, IdB} : EnvPut(Mp3Path(id), Mp3Data)
    \/ \E id \in {IdA, IdB} : EnvRemove(Mp3Path(id))

SpecReload == InitReload /\ [][NextReload]_vars

\* SpecLoad: one connection at a time reloads, between edits of the directory
InitLoad == InitWith({1}, LoadNames)

NextLoad ==
    \/ \E t \in DOMAIN pc : LoadBegin(t)
    \/ \E t \in DOMAIN pc : LoadEntry(t)
    \/ \E t \in DOMAIN pc : LoadEnd(t)
    \/ \E c \in Conns : Accept(c)
    \/ \E c \in Conns : \E req \in LoadRequests : Recv(c, req)
    \/ \E c \in Conns : SendHeader(c)
    \/ \E c \in Conns : SendText(c)
    \/ \E c \in Conns : Finish(c)
    \/ \E name \in {Mp3Path(IdA), Mp3Path(IdB), Mp3Path(IdLatin1), WavPath} :
           EnvPut(name, Mp3Data)
    \/ \E data \in LoadSidecars : EnvPut(DescriptionPath(IdA), data)
    \/ \E name \in DOMAIN files : EnvRemove(name)
    \/ EnvChmod(DescriptionPath(IdA))
    \/ EnvChmodDir
    \/ EnvRemoveDir

SpecLoad == InitLoad /\ [][NextLoad]_vars

\* SpecHttp: one connection at a time, every kind of request, one track
InitHttp == InitWith({1}, CoreNames)

NextHttp ==
    \/ \E t \in DOMAIN pc : LoadBegin(t)
    \/ \E t \in DOMAIN pc : LoadEntry(t)
    \/ \E t \in DOMAIN pc : LoadEnd(t)
    \/ \E c \in Conns : Accept(c)
    \/ \E c \in Conns : RecvNothing(c)
    \/ \E c \in Conns : \E req \in HttpRequests : Recv(c, req)
    \/ \E c \in Conns : SendCatalog(c)
    \/ \E c \in Conns : LookupDescription(c)
    \/ \E c \in Conns : LookupMp3(c)
    \/ \E c \in Conns : SendHeader(c)
    \/ \E c \in Conns : SendText(c)
    \/ \E c \in Conns : SendFileChunk(c)
    \/ \E c \in Conns : Finish(c)
    \/ \E data \in {Mp3Data, <<>>} : EnvPut(Mp3Path(IdA), data)
    \/ \E data \in HttpSidecars : EnvPut(DescriptionPath(IdA), data)
    \/ \E name \in DOMAIN files : EnvRemove(name)
    \/ \E name \in DOMAIN files : EnvChmod(name)

SpecHttp == InitHttp /\ [][NextHttp]_vars

\* SpecLive: MaxConns concurrent connections, every route and an unknown
\* path, with and without a Range header; every recv, send and read returns
\* and a thread waiting for the mutex gets it
LiveRequests ==
    CoreRequests \cup
    { Req(GET, <<"/">>), ReqRange(GET, StreamPrefix \o IdA, <<"2", "-">>),
      ReqRange(GET, StreamPrefix \o IdA, <<"x", "-">>) }

InitLive == InitWith(1..MaxConns, CoreNames)

\* the steps of thread t that wait for nothing but a call to return
LiveStep(t) ==
    \/ LoadEntry(t)
    \/ LoadEnd(t)
    \/ t # 0 /\ RecvNothing(t)
    \/ t # 0 /\ \E req \in LiveRequests : Recv(t, req)
    \/ t # 0 /\ SendHeader(t)
    \/ t # 0 /\ SendText(t)
    \/ t # 0 /\ SendFileChunk(t)
    \/ t # 0 /\ Finish(t)

\* the steps of thread t that lock catalog_mutex
LockStep(t) ==
    \/ LoadBegin(t)
    \/ t # 0 /\ SendCatalog(t)
    \/ t # 0 /\ LookupDescription(t)
    \/ t # 0 /\ LookupMp3(t)

NextLive ==
    \/ \E t \in DOMAIN pc : LiveStep(t)
    \/ \E t \in DOMAIN pc : LockStep(t)
    \/ \E c \in Conns : Accept(c)
    \/ EnvPut(Mp3Path(IdA), Mp3Data)
    \/ EnvRemove(Mp3Path(IdA))

Fairness ==
    \A t \in 0..MaxConns : WF_vars(LiveStep(t)) /\ SF_vars(LockStep(t))

SpecLive == InitLive /\ [][NextLive]_vars /\ Fairness

---------------------------------------------------------------------------
(* Properties *)

\* c's handler has just built its listing
Listed(c) == pc[c] = "catalog" /\ pc'[c] = "send_header"

\* C1: whatever the interleaving of /reload and /catalog handlers, every
\* listing sendCatalog builds is the whole catalog as one finished load
\* installed it (the last one to finish before the copy): never the cleared
\* or partly filled catalog of a load that is still scanning, and whenever no
\* load is scanning the catalog is the one the last finished load installed.
C1_ListingIsOneLoad ==
    /\ [](~Scanning => track_catalog = lastInstalled)
    /\ [][\A c \in Conns : Listed(c) => pending'[c].list = CatalogJson(lastInstalled)]_vars

\* a listing of two tracks is waiting to be sent while another connection's
\* reload has cleared the catalog and refilled it with one of two entries
C1_Witness ==
    \E c, d \in Conns :
        /\ pc[c] = "send_header"
        /\ Cardinality(pending[c].list) = 2
        /\ pc[d] = "scanning"
        /\ Cardinality(DOMAIN track_catalog) = 1
        /\ Cardinality(scanTodo) >= 1

\* c runs sendTrackDescription or sendMp3File and is past its lookup: it has
\* its header or body to send, or has sent them and not yet returned
InFileHandler(c) ==
    /\ pc[c] \in {"send_header", "send_body", "finish"}
    /\ Route(Path(request[c])) \in {"sendTrackDescription", "sendMp3File"}

\* d waits for catalog_mutex: to list, to look an id up, or to reload
WantsLock(d) == pc[d] \in {"catalog", "description", "stream", "reload"}

\* C2: a description or stream handler holds catalog_mutex from its lookup
\* until it has sent its last byte and returns, error responses included.
\* While it does, the catalog does not change and no other handler gets the
\* lock (none lists, looks up or reloads); a handler whose client has stalled
\* keeps the lock in every later state, so the others stay blocked.
C2_LockHeldWhileStreaming ==
    /\ [](\A c \in Conns : InFileHandler(c) => catalog_mutex = {c})
    /\ [][\A c \in Conns : InFileHandler(c) =>
            /\ track_catalog' = track_catalog
            /\ \A d \in Conns \ {c} : WantsLock(d) => pc'[d] = pc[d]
            /\ catalog_mutex' # {c} => pc[c] = "finish"]_vars
    /\ [][\A c \in Conns : (InFileHandler(c) /\ c \in stalled) =>
            /\ c \in stalled' /\ pc'[c] = pc[c] /\ catalog_mutex' = {c}
            /\ \A d \in Conns \ {c} : WantsLock(d) => pc'[d] = pc[d]]_vars

\* a stream handler has sent its header, its client has stalled before the
\* body, and another connection's /reload waits for the lock
C2_Witness ==
    \E c, d \in Conns :
        /\ c \in stalled
        /\ pc[c] = "send_body"
        /\ Route(Path(request[c])) = "sendMp3File"
        /\ pending[c].file
        /\ pc[d] = "reload"

\* C3: no request ends the server process.  (std::stoll at line 364 throws
\* on an empty, non-numeric or out-of-range start value, in a thread that
\* catches nothing.)
C3_NoRequestTerminates == alive

\* the body bytes sent so far, in order
RECURSIVE BodyData(_)
BodyData(chunks) ==
    IF chunks = <<>> THEN <<>>
    ELSE BodyData(SubSeq(chunks, 1, Len(chunks) - 1)) \o chunks[Len(chunks)].data

\* c ran sendMp3File on a catalogued track whose file opened, and has sent
\* all it sends
StreamedOk(c) ==
    /\ pc[c] \in {"finish", "closed"}
    /\ log[c] # <<>>
    /\ Route(Path(request[c])) = "sendMp3File"
    /\ pending[c].file

\* C4: a /stream response for a catalogued track whose file of size S opened
\* has status 200, Content-Length S - min(max(N, 0), S) for the requested start
\* N (0 without a Range header), and as body the file from that offset to its
\* end.
C4_StreamFromClampedOffset ==
    \A c \in Conns : StreamedOk(c) =>
        LET S == Len(stream[c].data)
            N == ParseRange(request[c]).val
            from == IF (IF N >= 0 THEN N ELSE 0) <= S THEN (IF N >= 0 THEN N ELSE 0) ELSE S
        IN /\ Len(resp[c].headers) = 1
           /\ resp[c].headers[1].status = 200
           /\ resp[c].headers[1].content_length = S - from
           /\ BodyData(resp[c].body) = SubSeq(stream[c].data, from + 1, S)
           /\ (~request[c].range.present =>
                  /\ resp[c].headers[1].content_length = S
                  /\ BodyData(resp[c].body) = stream[c].data)
           /\ (N >= S =>
                  /\ resp[c].headers[1].content_length = 0
                  /\ resp[c].body = <<>>)

\* a stream of a 3-byte file from offset 2 has ended: one byte was sent
C4_Witness ==
    \E c \in Conns :
        /\ StreamedOk(c)
        /\ pc[c] = "closed"
        /\ ParseRange(request[c]).val = 2
        /\ Len(stream[c].data) = 3
        /\ BodyData(resp[c].body) = <<Raw(3)>>

\* the events of connection c from position i on are body sends, then
\* possibly the close
RECURSIVE BodiesThenClose(_, _)
BodiesThenClose(events, i) ==
    IF i > Len(events) THEN TRUE
    ELSE IF events[i] = "body" THEN BodiesThenClose(events, i + 1)
    ELSE events[i] = "close" /\ i = Len(events)

Handlers == {"sendCatalog", "sendTrackDescription", "sendMp3File",
             "loadTrackCatalog", "NotFound"}

\* the events of a connection so far are a prefix of
\* recv, dispatch, header, body ..., close -- or the lone close of a
\* connection that received nothing
EventOrder(events) ==
    \/ events = <<>>
    \/ events = <<"close">>
    \/ /\ events[1] = "recv"
       /\ Len(events) >= 2 => events[2] \in Handlers
       /\ Len(events) >= 3 => events[3] = "header"
       /\ BodiesThenClose(events, 4)

Count(events, e) == Cardinality({i \in 1..Len(events) : events[i] = e})

\* C6 (a slot of Conns is a new connection each time it is accepted): on every
\* connection the events come in the order receive, dispatch to
\* one handler, header (with its Content-Length), body, close; at most one
\* header is sent, no body chunk before it, the close is the last event and
\* happens once, and a connection that received nothing is closed with
\* nothing sent.
C6_EventOrder ==
    /\ [](\A c \in Conns :
            /\ EventOrder(log[c])
            /\ Len(resp[c].headers) = Count(log[c], "header")
            /\ Len(resp[c].headers) <= 1
            /\ Len(resp[c].body) = Count(log[c], "body")
            /\ resp[c].body # <<>> => Len(resp[c].headers) = 1
            /\ Count(log[c], "close") <= 1
            /\ pc[c] = "closed" <=> Count(log[c], "close") = 1
            /\ log[c] = <<"close">> => resp[c] = NoResp)
    /\ [][\A c \in Conns : pc'[c] # "accepted" =>
            /\ resp'[c].headers # resp[c].headers =>
                  /\ resp[c] = NoResp
                  /\ resp'[c].headers = <<HttpHeader(pending[c].status, pending[c].ctype,
                                                     pending[c].clen)>>
            /\ resp'[c].body # resp[c].body =>
                  Len(resp[c].headers) = 1 /\ pc[c] # "closed"
            /\ (pc[c] = "closed" /\ pc'[c] = "closed") => resp'[c] = resp[c]]_vars

\* a connection went through all five events
C6_Witness ==
    \E c \in Conns :
        /\ log[c] = <<"recv", "sendMp3File", "header", "body", "close">>
        /\ resp[c].headers[1].content_length = 3

\* a connection was closed having received nothing
C6_WitnessNothingReceived ==
    \E c \in Conns : log[c] = <<"close">> /\ pc[c] = "closed"

\* c is taking the step of its handler that looks the id up and checks the file
Looked(c) == pc[c] \in {"description", "stream"} /\ pc'[c] = "send_header"

\* C7: the description and stream handlers answer by the first failing check
\* of: id not in the catalog, file missing, file not openable -- with the
\* statuses and texts below; an error answer carries no file byte and the
\* catalog is left as it was; an id still catalogued whose file is gone gets
\* the file-missing answer.
C7_FirstFailingCheck ==
    /\ [][\A c \in Conns : Looked(c) =>
            LET id == TrackId(Path(request[c]))
                known == id \in DOMAIN track_catalog
                stream_ == pc[c] = "stream"
                f == IF stream_ THEN files[Mp3Path(id)] ELSE files[DescriptionPath(id)]
            IN /\ track_catalog' = track_catalog
               /\ files' = files
               /\ (~known /\ stream_) =>
                     /\ pending'[c].status = 404
                     /\ pending'[c].text = "Track not found"
                     /\ pending'[c].clen = 15
               /\ (~known /\ ~stream_) =>
                     /\ pending'[c].status = 404
                     /\ pending'[c].text = "{\"error\": \"Track not found\"}"
                     /\ pending'[c].clen = 28
               /\ (known /\ ~f.exists /\ stream_) =>
                     /\ pending'[c].status = 404
                     /\ pending'[c].text = "MP3 file not found"
                     /\ pending'[c].clen = 18
               /\ (known /\ ~f.exists /\ ~stream_) =>
                     /\ pending'[c].status = 404
                     /\ pending'[c].text = "{\"error\": \"Description file not found\"}"
                     /\ pending'[c].clen = 39
               /\ (known /\ f.exists /\ ~f.openable /\ stream_) =>
                     /\ pending'[c].status = 500
                     /\ pending'[c].text = "Failed to open MP3 file"
                     /\ pending'[c].clen = 23
               /\ (known /\ f.exists /\ ~f.openable /\ ~stream_) =>
                     /\ pending'[c].status = 500
                     /\ pending'[c].text = "{\"error\": \"Failed to open description file\"}"
                     /\ pending'[c].clen = 44
               /\ (known /\ f.exists /\ f.openable) <=>
                     (pending'[c].status = 200 /\ pending'[c].file)
               /\ ~(known /\ f.exists /\ f.openable) =>
                     (~pending'[c].file /\ stream'[c] = stream[c])]_vars
    /\ [](\A c \in Conns :
            (resp[c].headers # <<>> /\ resp[c].headers[1].status # 200) =>
                /\ BodyData(resp[c].body) = <<>>
                /\ \A i \in 1..Len(resp[c].body) : resp[c].body[i].text = pending[c].text)

\* /stream/a was asked after a.mp3 was deleted, a still being in the catalog,
\* and the file-missing answer went out
C7_Witness ==
    \E c \in Conns :
        /\ pc[c] = "closed"
        /\ Route(Path(request[c])) = "sendMp3File"
        /\ TrackId(Path(request[c])) \in DOMAIN track_catalog
        /\ Len(resp[c].headers) = 1
        /\ resp[c].headers[1].status = 404
        /\ Len(resp[c].body) = 1
        /\ resp[c].body[1].text = "MP3 file not found"

\* the outcome the path alone decides
OutcomeOfPath(path) ==
    IF path = <<"/","c","a","t","a","l","o","g">> THEN "sendCatalog"
    ELSE IF path = <<"/","r","e","l","o","a","d">> THEN "loadTrackCatalog"
    ELSE IF Len(path) >= 13 /\ SubSeq(path, 1, 13) =
                 <<"/","d","e","s","c","r","i","p","t","i","o","n","/">>
         THEN "sendTrackDescription"
    ELSE IF Len(path) >= 8 /\ SubSeq(path, 1, 8) = <<"/","s","t","r","e","a","m","/">>
         THEN "sendMp3File"
    ELSE "NotFound"

\* C10: every request that was received reaches exactly one of the five
\* outcomes, the one its path alone decides (whatever its method and its
\* other headers); every path that is none of the four routes gets the 404
\* plain text "Not Found".
C10_RoutingByPathAlone ==
    \A c \in Conns : (log[c] # <<>> /\ log[c][1] = "recv") =>
        /\ Len(log[c]) >= 2
        /\ log[c][2] = OutcomeOfPath(Path(request[c]))
        /\ log[c][2] = "NotFound" =>
              /\ pending[c].status = 404
              /\ pending[c].ctype = "text/plain"
              /\ pending[c].text = "Not Found"

\* the stems of the .mp3 entries among names
Mp3Stems(names) == {e.stem : e \in {x \in names : x.ext = ".mp3"}}

\* C5: when a load has completed, the catalog ids are exactly the stems of
\* the .mp3 entries that were in the directory at that load (so no id of a
\* removed file is left); a load that found no directory created it and left
\* the catalog empty.
C5_IdsAreMp3Stems ==
    lastLoad.state = "done" =>
        /\ DOMAIN track_catalog = Mp3Stems(lastLoad.entries)
        /\ DOMAIN track_catalog = Mp3Stems(ExistingNames)
        /\ \A id \in DOMAIN track_catalog : track_catalog[id].id = id
        /\ lastLoad.dirMissing => (dirExists /\ DOMAIN track_catalog = {})

\* b.mp3 was loaded once (the load wrote b.json) and then removed; the load
\* that followed kept a alone, ignoring b.wav and the sidecars
C5_Witness ==
    /\ lastLoad.state = "done"
    /\ ~lastLoad.dirMissing
    /\ files[DescriptionPath(IdB)] = File(BOM \o DumpDefault(IdB))
    /\ ~files[Mp3Path(IdB)].exists
    /\ files[WavPath].exists
    /\ DOMAIN track_catalog = {IdA}

\* the sidecar text of id is a JSON object with exactly the default values
DefaultSidecar(id) ==
    LET f == files[[stem |-> id, ext |-> ".json"]]
        text == IF Len(f.data) >= 3 /\ SubSeq(f.data, 1, 3) = BOM
                THEN SubSeq(f.data, 4, Len(f.data)) ELSE f.data
        m == JsonMembers(text)
    IN /\ f.exists
       /\ JsonParses(text)
       /\ {m[i] : i \in 1..Len(m)} =
             { MemberStr("title", id), MemberStr("artist", <<"U","n","k","n","o","w","n">>),
               MemberStr("album", <<"U","n","k","n","o","w","n">>),
               MemberNum("duration", 0) }

\* C8: a completed load of a directory with N .mp3 files and no sidecar gives
\* N entries with title = id, artist = album = "Unknown", duration = 0, and
\* writes the N sidecars {id}.json with these values; where the sidecars
\* cannot be written the N tracks are in the catalog all the same.
C8_DefaultsWithoutSidecars ==
    ( /\ lastLoad.state = "done"
      /\ ~lastLoad.dirMissing
      /\ \A e \in lastLoad.entries : e.ext # ".json" ) =>
        /\ DOMAIN track_catalog = Mp3Stems(lastLoad.entries)
        /\ \A id \in DOMAIN track_catalog :
              /\ track_catalog[id].title = id
              /\ track_catalog[id].artist = <<"U","n","k","n","o","w","n">>
              /\ track_catalog[id].album = <<"U","n","k","n","o","w","n">>
              /\ track_catalog[id].duration = 0
        /\ dirWritable =>
              /\ \A id \in DOMAIN track_catalog : DefaultSidecar(id)
              /\ {e \in ExistingNames : e.ext = ".json"} =
                    {[stem |-> id, ext |-> ".json"] : id \in DOMAIN track_catalog}
        /\ ~dirWritable => \A e \in ExistingNames : e.ext # ".json"

\* two .mp3 files and no sidecar were there; two entries and two sidecars
\* are there now
C8_Witness ==
    /\ lastLoad.state = "done"
    /\ Mp3Stems(lastLoad.entries) = {IdA, IdB}
    /\ \A e \in lastLoad.entries : e.ext # ".json"
    /\ DOMAIN track_catalog = {IdA, IdB}
    /\ DefaultSidecar(IdA)
    /\ DefaultSidecar(IdB)

\* the four fields of a catalog entry, as JSON members
EntryMember(track, key) ==
    CASE key = "title" -> MemberStr(key, track.title)
      [] key = "artist" -> MemberStr(key, track.artist)
      [] key = "album" -> MemberStr(key, track.album)
      [] key = "duration" -> MemberNum(key, track.duration)

DefaultMember(id, key) ==
    CASE key = "title" -> MemberStr(key, id)
      [] key = "artist" -> MemberStr(key, <<"U","n","k","n","o","w","n">>)
      [] key = "album" -> MemberStr(key, <<"U","n","k","n","o","w","n">>)
      [] key = "duration" -> MemberNum(key, 0)

\* C9: after a completed load, for every track whose sidecar parses, each of
\* title, artist, album, duration of the entry is the sidecar's value where
\* the sidecar has the field and the default where it has not.
C9_SidecarOverlay ==
    lastLoad.state = "done" =>
        \A id \in DOMAIN track_catalog :
            LET f == files[[stem |-> id, ext |-> ".json"]]
                text == IF Len(f.data) >= 3 /\ SubSeq(f.data, 1, 3) = BOM
                        THEN SubSeq(f.data, 4, Len(f.data)) ELSE f.data
                m == JsonMembers(text)
            IN (f.exists /\ f.openable /\ JsonParses(text)) =>
                  \A key \in {"title", "artist", "album", "duration"} :
                      EntryMember(track_catalog[id], key) =
                          IF \E i \in 1..Len(m) : m[i].k = key
                          THEN JsonGet(m, key)
                          ELSE DefaultMember(id, key)

\* the byte with the value of two hexadecimal digits, as a character ("NUL"
\* the zero byte, "??" a byte that is no character of the model)
ByteOfHex(h1, h2) ==
    LET v(h) == CASE h = "0" -> 0 [] h = "1" -> 1 [] h = "2" -> 2 [] h = "3" -> 3
                  [] h = "4" -> 4 [] h = "5" -> 5 [] h = "6" -> 6 [] h = "7" -> 7
                  [] h = "8" -> 8 [] h = "9" -> 9 [] h \in {"a", "A"} -> 10
                  [] h \in {"b", "B"} -> 11 [] h \in {"c", "C"} -> 12
                  [] h \in {"d", "D"} -> 13 [] h \in {"e", "E"} -> 14
                  [] h \in {"f", "F"} -> 15
        n == 16 * v(h1) + v(h2)
    IN CASE n = 0 -> "NUL" [] n = 32 -> " " [] n = 37 -> "%" [] n = 43 -> "+"
         [] n = 47 -> "/" [] n = 97 -> "a" [] n = 98 -> "b" [] n = 120 -> "x"
         [] OTHER -> "??"

HexDigits == {"0", "1", "2", "3", "4", "5", "6", "7", "8", "9",
              "a", "b", "c", "d", "e", "f", "A", "B", "C", "D", "E", "F"}

\* the decoding of the text from position i on, rule by rule
RECURSIVE DecodedByRule(_, _)
DecodedByRule(text, i) ==
    IF i > Len(text) THEN <<>>
    ELSE IF text[i] = "+" THEN <<" ">> \o DecodedByRule(text, i + 1)
    ELSE IF text[i] = "%" /\ Len(text) - i < 2 THEN <<"%">> \o DecodedByRule(text, i + 1)
    ELSE IF text[i] = "%"
         THEN <<ByteOfHex(text[i + 1], text[i + 2])>> \o DecodedByRule(text, i + 3)
    ELSE <<text[i]>> \o DecodedByRule(text, i + 1)

\* every % of the text that has two characters after it has two hexadecimal
\* digits after it
RECURSIVE EscapesAreHex(_, _)
EscapesAreHex(text, i) ==
    IF i > Len(text) THEN TRUE
    ELSE IF text[i] = "%" /\ Len(text) - i >= 2
         THEN /\ text[i + 1] \in HexDigits
              /\ text[i + 2] \in HexDigits
              /\ EscapesAreHex(text, i + 3)
    ELSE EscapesAreHex(text, i + 1)

\* the text after /description/ or /stream/ in the path of c
IdText(c) ==
    LET path == Path(request[c])
    IN IF Len(path) >= 13 /\ SubSeq(path, 1, 13) =
              <<"/","d","e","s","c","r","i","p","t","i","o","n","/">>
       THEN SubSeq(path, 14, Len(path))
       ELSE SubSeq(path, 9, Len(path))

\* C11: the id a description or stream handler looks up in the catalog is
\* the decoding of the path's remainder: + is a space, %XX is the byte XX, a %
\* with fewer than two characters after it stays %, the rest is copied.
C11_DecodedIdIsKey ==
    \A c \in Conns :
        (pc[c] \in {"description", "stream"} /\ EscapesAreHex(IdText(c), 1)) =>
            TrackId(Path(request[c])) = DecodedByRule(IdText(c), 1)

\* the Content-Type each handler answers with, by status
TypeOfAnswer(route, status) ==
    CASE route = "NotFound" -> "text/plain; charset=utf-8"
      [] route = "sendMp3File" /\ status = 200 -> "audio/mpeg"
      [] route = "sendMp3File" /\ status # 200 -> "text/plain; charset=utf-8"
      [] OTHER -> "application/json; charset=utf-8"

\* C12: whatever the route and the outcome, what a connection is sent starts
\* with one header that has a Content-Type (with "; charset=utf-8" for
\* text/... and application/json), the Content-Length, Connection: close and
\* Access-Control-Allow-Origin: *.
C12_HeaderOnEveryResponse ==
    \A c \in Conns :
        /\ (resp[c].body # <<>> \/ (pc[c] = "closed" /\ log[c] # <<"close">>)) =>
              Len(resp[c].headers) = 1
        /\ \A i \in 1..Len(resp[c].headers) :
              LET h == resp[c].headers[i]
              IN /\ h.status \in {200, 404, 500}
                 /\ h.status = pending[c].status
                 /\ h.content_type = TypeOfAnswer(log[c][2], h.status)
                 /\ h.content_length = pending[c].clen
                 /\ h.connection = "close"
                 /\ h.allow_origin = "*"

\* a 500 went out, header first
C12_Witness ==
    \E c \in Conns :
        /\ pc[c] = "closed"
        /\ Len(resp[c].headers) = 1
        /\ resp[c].headers[1].status = 500
        /\ resp[c].headers[1].content_type = "text/plain; charset=utf-8"
        /\ Len(resp[c].body) = 1

\* reading the sidecar f into a track fails: it does not open, the read of
\* its first 3 bytes fails, its text is no JSON object, or one of the four
\* fields has a value of the wrong JSON type
SidecarFails(f) ==
    LET text == IF Len(f.data) >= 3 /\ SubSeq(f.data, 1, 3) = BOM
                THEN SubSeq(f.data, 4, Len(f.data)) ELSE f.data
    IN /\ f.exists
       /\ \/ ~f.openable
          \/ Len(f.data) < 3
          \/ ~JsonParses(text)
          \/ \E i \in 2..(Len(text) - 1) :
                \/ text[i].k \in {"title", "artist", "album"} /\ text[i].t # "str"
                \/ text[i].k = "duration" /\ text[i].t # "num"

\* C13: after a completed load every .mp3 of the directory is in the
\* catalog (said here of directories whose names are all UTF-8; the scan that
\* a name of another encoding cuts short is the matter of C5 and C21), and a
\* track whose sidecar failed to be read or parsed has the four defaults, none
\* of its fields coming from that sidecar.
C13_FailingSidecarGivesDefaults ==
    lastLoad.state = "done" =>
        /\ (\A e \in lastLoad.entries : \A i \in 1..Len(e.stem) : e.stem[i] # "0xE9") =>
              DOMAIN track_catalog = Mp3Stems(lastLoad.entries)
        /\ \A id \in DOMAIN track_catalog :
              SidecarFails(files[[stem |-> id, ext |-> ".json"]]) =>
                  \A key \in {"title", "artist", "album", "duration"} :
                      EntryMember(track_catalog[id], key) = DefaultMember(id, key)

\* c ran sendTrackDescription on a catalogued track whose sidecar opened, and
\* has sent all it sends
DescribedOk(c) ==
    /\ pc[c] \in {"finish", "closed"}
    /\ log[c] # <<>>
    /\ Route(Path(request[c])) = "sendTrackDescription"
    /\ pending[c].file

\* C14: a /description response for a catalogued track whose sidecar opened
\* is 200 application/json, its body is the sidecar without a leading
\* EF BB BF, and its Content-Length is the number of body bytes sent --
\* whatever the length of the sidecar.
C14_DescriptionVerbatim ==
    \A c \in Conns : DescribedOk(c) =>
        LET data == stream[c].data
            body == IF Len(data) >= 3 /\ SubSeq(data, 1, 3) = <<Raw(239), Raw(187), Raw(191)>>
                    THEN SubSeq(data, 4, Len(data)) ELSE data
        IN /\ Len(resp[c].headers) = 1
           /\ resp[c].headers[1].status = 200
           /\ resp[c].headers[1].content_type = "application/json; charset=utf-8"
           /\ BodyData(resp[c].body) = body
           /\ resp[c].headers[1].content_length = Len(BodyData(resp[c].body))

\* c is in sendCatalog after the copy: sending, or about to return
InListHandler(c) ==
    /\ pc[c] \in {"send_header", "send_body", "finish"}
    /\ Route(Path(request[c])) = "sendCatalog"

\* C15: sendCatalog holds the lock for the copy only: once it sends it does
\* not hold it, a stalled /catalog client leaves every handler that waits
\* for a free lock able to take it, and the listing has one element
\* {id, title, artist, album, duration} per catalog entry.
C15_ListLockScope ==
    /\ [](\A c \in Conns : InListHandler(c) =>
            /\ c \notin catalog_mutex
            /\ (c \in stalled /\ catalog_mutex = {}) =>
                  \A d \in Conns \ {c} :
                      /\ pc[d] = "stream" => ENABLED LookupMp3(d)
                      /\ pc[d] = "description" => ENABLED LookupDescription(d)
                      /\ pc[d] = "reload" => ENABLED LoadBegin(d)
                      /\ pc[d] = "catalog" => ENABLED SendCatalog(d))
    /\ [][\A c \in Conns : Listed(c) =>
            /\ catalog_mutex' = catalog_mutex
            /\ pending'[c].status = 200
            /\ pending'[c].list =
                  { [id |-> x, title |-> track_catalog[x].title,
                     artist |-> track_catalog[x].artist, album |-> track_catalog[x].album,
                     duration |-> track_catalog[x].duration] : x \in DOMAIN track_catalog }
            /\ Cardinality(pending'[c].list) = Cardinality(DOMAIN track_catalog)]_vars

\* a /catalog client is stalled in the middle of its response while another
\* connection, in a file handler, holds the lock
C15_Witness ==
    \E c, d \in Conns :
        /\ InListHandler(c)
        /\ c \in stalled
        /\ Cardinality(pending[c].list) = 1
        /\ InFileHandler(d)
        /\ catalog_mutex = {d}

\* c is in the /reload branch after loadTrackCatalog returned: sending its
\* response, or about to close
InReloadResponse(c) ==
    /\ pc[c] \in {"send_header", "send_body", "finish"}
    /\ Route(Path(request[c])) = "loadTrackCatalog"

\* t is taking the step on which its call of loadTrackCatalog returns
LoadReturns(t) ==
    /\ pc[t] \in {"load", "reload", "scanning"}
    /\ pc'[t] \in {"accept", "send_header"}

\* d is taking the step on which its handler reads the catalog under the lock
Lookup(d) ==
    /\ pc[d] \in {"catalog", "description", "stream"}
    /\ pc'[d] = "send_header"

\* C16: /reload answers 200 {"status": "Catalog reloaded"} only when its own
\* load has returned, the lock released and the catalog of that load
\* installed; the installed catalog changes only when a load returns, and
\* every lookup reads the catalog that is installed when it takes the lock --
\* so a lookup after the answer sees that load or a later one.
C16_ReloadAnswersAfterSwap ==
    /\ [](\A c \in Conns : InReloadResponse(c) =>
            /\ c \notin catalog_mutex
            /\ pending[c].status = 200
            /\ pending[c].text = "{\"status\": \"Catalog reloaded\"}"
            /\ resp[c].headers # <<>> => ~(pc[c] = "send_header"))
    /\ [][\A c \in Conns : (pc'[c] = "send_header" /\ pc[c] \in {"reload", "scanning"}) =>
            /\ LoadReturns(c)
            /\ scanTodo' = {}
            /\ c \notin catalog_mutex'
            /\ track_catalog' = lastInstalled'
            /\ resp'[c] = NoResp]_vars
    /\ [][lastInstalled' # lastInstalled => \E t \in DOMAIN pc : LoadReturns(t)]_vars
    /\ [][\A d \in Conns : Lookup(d) =>
            /\ ~Scanning
            /\ track_catalog = lastInstalled
            /\ track_catalog' = track_catalog]_vars

\* a /reload was answered and closed; another connection then looked a up in
\* the catalog that the load installed
C16_Witness ==
    \E c, d \in Conns :
        /\ pc[c] = "closed"
        /\ log[c] = <<"recv", "loadTrackCatalog", "header", "body", "close">>
        /\ resp[c].body[1].text = "{\"status\": \"Catalog reloaded\"}"
        /\ lastLoad.state = "done"
        /\ pc[d] = "send_header"
        /\ Route(Path(request[d])) = "sendMp3File"
        /\ pending[d].status = 200
        /\ track_catalog = lastInstalled

\* C17: the catalog is empty when the process starts, and as long as the
\* load that main() makes has not returned no connection is accepted, no
\* handler has taken a step and none holds the lock; main() loads once.
C17_InitialLoadBeforeAccept ==
    /\ [](pc[0] = "load" => (track_catalog = EmptyCatalog /\ catalog_mutex = {}))
    /\ [](pc[0] # "accept" =>
            /\ \A c \in Conns : pc[c] = "idle" /\ log[c] = <<>> /\ resp[c] = NoResp
            /\ catalog_mutex \subseteq {0})
    /\ [][(\E c \in Conns : pc'[c] # pc[c]) => pc[0] = "accept"]_vars
    /\ [][pc[0] = "accept" => pc'[0] = "accept"]_vars

\* the first load is in the middle of its scan, one track loaded, and no
\* connection has been accepted
C17_Witness ==
    /\ pc[0] = "scanning"
    /\ DOMAIN track_catalog = {IdA}
    /\ catalog_mutex = {0}
    /\ \A c \in Conns : pc[c] = "idle"

\* C18: the duration of every track of the catalog is non-negative, whatever
\* the sidecars hold.
C18_DurationNonNegative ==
    \A id \in DOMAIN track_catalog : track_catalog[id].duration >= 0

\* t is at a statement that locks catalog_mutex
AtLock(t) == pc[t] \in {"load", "reload", "catalog", "description", "stream"}

\* C19: at most one thread holds the catalog lock; a thread that is about to
\* lock it does not hold it; the holder is a thread inside loadTrackCatalog,
\* sendTrackDescription or sendMp3File; and a thread that left its handler --
\* by an error return too -- has released it before its connection is closed.
C19_LockDiscipline ==
    /\ [](/\ Cardinality(catalog_mutex) <= 1
          /\ \A t \in DOMAIN pc : AtLock(t) => t \notin catalog_mutex
          /\ \A t \in catalog_mutex : pc[t] = "scanning" \/ (t # 0 /\ InFileHandler(t))
          /\ \A c \in Conns : pc[c] \in {"idle", "accepted", "closed"} => c \notin catalog_mutex
          /\ pc[0] = "accept" => 0 \notin catalog_mutex)
    /\ [][\A t \in DOMAIN pc : (t \notin catalog_mutex /\ t \in catalog_mutex') =>
              (AtLock(t) /\ catalog_mutex = {})]_vars
    /\ [][\A c \in Conns : (pc[c] # "closed" /\ pc'[c] = "closed") =>
              c \notin catalog_mutex']_vars

\* the stream handler returned early with its 404, the connection is
\* closed, the lock is free
C19_Witness ==
    \E c \in Conns :
        /\ pc[c] = "closed"
        /\ Route(Path(request[c])) = "sendMp3File"
        /\ Len(resp[c].headers) = 1
        /\ resp[c].headers[1].status = 404
        /\ Len(resp[c].body) = 1
        /\ catalog_mutex = {}

\* C20: when every recv, send and read returns and the lock is granted
\* fairly, every accepted connection is closed in the end and the lock is
\* free again and again.
C20_EveryConnectionCloses ==
    /\ \A c \in 1..MaxConns : (pc[c] = "accepted") ~> (pc[c] = "closed")
    /\ []<>(catalog_mutex = {})

\* C21: a load that starts when a load has completed and nothing in the
\* directory was touched since writes no file and returns with the catalog
\* that the load before it installed.
C21_LoadIsIdempotent ==
    /\ [][lastLoad.state = "rescanning" => files' = files]_vars
    /\ [][\A t \in DOMAIN pc : (LoadReturns(t) /\ lastLoad.state = "rescanning") =>
              track_catalog' = lastInstalled]_vars

=============================================================================
